---- MODULE Spec2Model ----
(***************************************************************************)
(* Model of jax/experimental/jax2tf/examples/saved_model_lib.py:           *)
(* convert_and_save_model and _ReusableSavedModelWrapper.                  *)
(*                                                                         *)
(* One call of convert_and_save_model is a sequence of steps, one per      *)
(* statement that calls an external service (jax2tf.convert, tf.Variable,  *)
(* tf.function, get_concrete_function, tf.saved_model.save).  Each         *)
(* external call either returns or raises; a raise propagates to the       *)
(* caller.  SaveOptions objects live in a heap because the caller and the  *)
(* routine share them by reference.                                        *)
(***************************************************************************)
EXTENDS Integers, Sequences, FiniteSets, TLC

\* ------------------------------------------------------------- bounds
\* Longest input_signatures list the caller passes.
MaxSigs == 3
\* Number of caller-owned tf.saved_model.SaveOptions objects.
NumOptions == 1

\* ------------------------------------------------------------- values
\* Python's None where the other values of the slot are strings.
None == "None"
\* The null reference, where the other values of the slot are object ids.
NoneRef == 0
\* Caller-owned SaveOptions objects, by identity.
CallerOptions == 1..NumOptions
\* The identity of the SaveOptions object line 124 constructs.
FreshRef == NumOptions + 1
OptionRefs == CallerOptions \cup {FreshRef}

\* A name not yet bound in the frame of the call.
Unbound == [kind |-> "unbound"]

\* tf.saved_model.DEFAULT_SERVING_SIGNATURE_DEF_KEY
DEFAULT_SERVING_SIGNATURE_DEF_KEY == "serving_default"

\* tf.TensorSpec values the caller may put in input_signatures.
TensorSpecs == {"f32[None,4]", "f32[8,4]"}
\* polymorphic_shapes descriptors (None: not given).
PolyShapes == {None, "(b, ...)"}
ModelDirs == {"/tmp/model"}
JaxFns == {"predict"}

\* All sequences over S of length at most n.
SeqsUpTo(S, n) == UNION {[1..k -> S] : k \in 0..n}

\* ------------------------------------------------------ nested structures
\* A nested structure is a leaf, a list/tuple of structures, or a dictionary of
\* structures.  tf.nest traverses dictionaries in sorted key order: KeyOrder is
\* the sorted sequence of the keys in use.
KeyOrder == <<"bias", "kernel">>

Leaf(v) == [kind |-> "leaf", value |-> v]
List(items) == [kind |-> "seq", items |-> items]
Dict(entries) == [kind |-> "dict", entries |-> entries]

\* The keys of a dictionary, sorted.
SortedKeys(entries) == SelectSeq(KeyOrder, LAMBDA k : k \in DOMAIN entries)

\* The children of a node, in tf.nest's traversal order.
Children(t) ==
  IF t.kind = "seq" THEN t.items
  ELSE IF t.kind = "dict"
       THEN [i \in 1..Len(SortedKeys(t.entries)) |-> t.entries[SortedKeys(t.entries)[i]]]
       ELSE <<>>

IsNode(t) == t.kind \in {"seq", "dict"}

\* tf.nest.flatten: the leaves, left to right.
RECURSIVE flatten(_)
RECURSIVE flatten_all(_)
flatten(t) == IF IsNode(t) THEN flatten_all(Children(t)) ELSE <<t>>
flatten_all(ts) ==
  IF ts = <<>> THEN <<>> ELSE flatten(Head(ts)) \o flatten_all(Tail(ts))

\* Number of leaves in the first n children of t.
RECURSIVE LeavesBefore(_, _)
LeavesBefore(ts, n) ==
  IF n = 0 THEN 0 ELSE LeavesBefore(ts, n - 1) + Len(flatten(ts[n]))

\* tf.nest.pack_sequence_as: the structure of t with its leaves replaced by
\* the elements of flat, in traversal order.
RECURSIVE pack_sequence_as(_, _)
pack_sequence_as(t, flat) ==
  IF ~IsNode(t) THEN flat[1]
  ELSE LET cs == Children(t)
           sub(i) == pack_sequence_as(cs[i],
                        SubSeq(flat, LeavesBefore(cs, i - 1) + 1, LeavesBefore(cs, i)))
       IN IF t.kind = "seq"
          THEN List([i \in 1..Len(cs) |-> sub(i)])
          ELSE LET ks == SortedKeys(t.entries)
                   pos(k) == CHOOSE i \in 1..Len(ks) : ks[i] = k
               IN Dict([k \in DOMAIN t.entries |-> sub(pos(k))])

\* tf.Variable(param): trainable left at its default, True.
Variable_default_trainable(param, trainable, id) ==
  [kind |-> "var", id |-> id, value |-> param.value, trainable |-> TRUE]

\* tf.Variable(param, trainable=...): a storage cell.  id is the identity of
\* the new object: the number of the creation within the call.
Variable(param, trainable, id) ==
  [kind |-> "var", id |-> id, value |-> param.value, trainable |-> trainable]

\* tf.nest.map_structure(lambda param: tf.Variable(param, trainable=with_gradient), params)
map_structure(trainable, structure) ==
  LET flat == flatten(structure)
  IN pack_sequence_as(structure,
                      [i \in 1..Len(flat) |-> Variable(flat[i], trainable, i)])

\* The parameter structures the caller may pass.
ParamsUniverse ==
  { Leaf("w"),
    List(<<Leaf("w"), Leaf("b")>>),
    Dict([k \in {"kernel", "bias"} |->
            IF k = "kernel" THEN List(<<Leaf("w"), Leaf("v")>>) ELSE Leaf("b")]),
    List(<<Dict([k \in {"kernel"} |-> Leaf("w")]), List(<<>>), Leaf("b")>>) }

\* trainable_variables without the filter.
trainable_of_all(variables) == variables

\* ---------------------------------------------------------- the wrapper
\* [v for v in self.variables if v.trainable]
trainable_of(variables) == SelectSeq(variables, LAMBDA v : v.trainable)

\* _ReusableSavedModelWrapper.__init__(self, tf_graph, param_vars): the four
\* fields of the new object.  call is the instance attribute __call__.
ReusableSavedModelWrapper(graph, pvars) ==
  [kind |-> "wrapper",
   variables |-> flatten(pvars),
   trainable_variables |-> trainable_of(flatten(pvars)),
   regularization_losses |-> <<>>,
   call |-> graph]

\* ------------------------------------------------------------- state
VARIABLES
  pc,                    \* position of the call
  jax_fn, params, model_dir, input_signatures, polymorphic_shapes,
  with_gradient, enable_xla, compile_model,
  saved_model_options,   \* the local name: a reference (rebound by line 124)
  caller_options,        \* the reference the caller passed and still holds
  options_heap,          \* SaveOptions objects by identity
  tf_fn, param_vars, tf_graph, signatures, next_sig, wrapper,
  calls,                 \* external services invoked by this call, in order
  saved,                 \* what tf.saved_model.save was handed by this call
  error,                 \* the exception the call raised
  gradient_marked        \* caller options that passed line 126 in some call

args == <<jax_fn, params, model_dir, input_signatures, polymorphic_shapes,
          with_gradient, enable_xla, compile_model, caller_options>>
locals == <<tf_fn, param_vars, tf_graph, signatures, next_sig, wrapper>>
vars == <<pc, args, saved_model_options, options_heap, locals, calls, saved,
          error, gradient_marked>>

NoError == [type |-> "none", msg |-> ""]
ValueError(msg) == [type |-> "ValueError", msg |-> msg]
\* An exception raised by the external service svc, passed on unchanged.
Propagated(svc) == [type |-> "propagated", msg |-> svc]

EmptyDict == [k \in {} |-> Unbound]
Dead == [live |-> FALSE, experimental_custom_gradients |-> FALSE]

\* One invocation of an external service.
Invocation(svc, arg) == [svc |-> svc, arg |-> arg]

\* Python truthiness of a saved_model_options value: SaveOptions defines
\* neither __bool__ nor __len__, so only None is falsy.
Truthy(ref) == ref # NoneRef

\* No call in progress: no arguments, an empty frame.
NoArgs ==
  /\ jax_fn = None /\ params = Unbound /\ model_dir = None
  /\ input_signatures = <<>> /\ polymorphic_shapes = None
  /\ with_gradient = FALSE /\ enable_xla = FALSE /\ compile_model = FALSE
  /\ caller_options = NoneRef
EmptyFrame ==
  /\ tf_fn = Unbound /\ param_vars = Unbound /\ tf_graph = Unbound
  /\ signatures = EmptyDict /\ next_sig = 0 /\ wrapper = Unbound
  /\ calls = <<>> /\ saved = <<>> /\ error = NoError

Init ==
  /\ pc = "idle"
  /\ NoArgs
  /\ saved_model_options = NoneRef
  /\ EmptyFrame
  /\ options_heap \in
       { h \in [OptionRefs -> [live : BOOLEAN, experimental_custom_gradients : BOOLEAN]] :
           /\ h[FreshRef] = Dead
           /\ \A o \in CallerOptions : h[o].live }
  /\ gradient_marked = {}

\* ------------------------------------------------- convert_and_save_model
\* The caller calls convert_and_save_model: the parameters are bound.
Call ==
  /\ pc = "idle"
  /\ pc' = "validate"
  /\ jax_fn' \in JaxFns
  /\ params' \in ParamsUniverse
  /\ model_dir' \in ModelDirs
  /\ input_signatures' \in SeqsUpTo(TensorSpecs, MaxSigs)
  /\ polymorphic_shapes' \in PolyShapes
  /\ with_gradient' \in BOOLEAN
  /\ enable_xla' \in BOOLEAN
  /\ compile_model' \in BOOLEAN
  /\ caller_options' \in {NoneRef} \cup CallerOptions
  /\ saved_model_options' = caller_options'
  /\ UNCHANGED <<options_heap, locals, calls, saved, error, gradient_marked>>

\* validation without the check of line 93.
validation_accepts_empty(sigs, poly) ==
  IF poly # None /\ Len(sigs) > 1
  THEN ValueError("For shape-polymorphic conversion a single input_signature is supported.")
  ELSE NoError

\* validation without the check of lines 95-98.
validation_ignores_polymorphic(sigs, poly) ==
  IF Len(sigs) = 0
  THEN ValueError("At least one input_signature must be given")
  ELSE NoError

\* Lines 93-98: the exception the argument checks raise, NoError if none.
validation(sigs, poly) ==
  IF Len(sigs) = 0
  THEN ValueError("At least one input_signature must be given")
  ELSE IF poly # None /\ Len(sigs) > 1
       THEN ValueError("For shape-polymorphic conversion a single input_signature is supported.")
       ELSE NoError

\* Validate with the options of lines 122-126 adjusted up front.
Validate_adjusting_options ==
  /\ pc = "validate"
  /\ error' = validation(input_signatures, polymorphic_shapes)
  /\ pc' = IF error' = NoError THEN "convert" ELSE "raised"
  /\ saved_model_options' = IF with_gradient /\ ~Truthy(saved_model_options)
                            THEN FreshRef ELSE saved_model_options
  /\ options_heap' =
       IF with_gradient
       THEN [options_heap EXCEPT ![saved_model_options'] =
                [live |-> TRUE, experimental_custom_gradients |-> TRUE]]
       ELSE options_heap
  /\ UNCHANGED <<args, locals, calls, saved, gradient_marked>>

Validate ==
  /\ pc = "validate"
  /\ error' = validation(input_signatures, polymorphic_shapes)
  /\ pc' = IF error' = NoError THEN "convert" ELSE "raised"
  /\ UNCHANGED <<args, saved_model_options, options_heap, locals, calls, saved,
                 gradient_marked>>

\* A raise of the external service svc, invoked with arg, ends the call.
Raises(at, svc, invoked) ==
  /\ pc = at
  /\ calls' = calls \o invoked
  /\ error' = Propagated(svc)
  /\ pc' = "raised"
  /\ UNCHANGED <<args, saved_model_options, options_heap, locals, gradient_marked>>

\* Lines 99-103: tf_fn = jax2tf.convert(jax_fn, ...)
convert(fn, wg, poly, xla) ==
  [fun |-> fn, with_gradient |-> wg, polymorphic_shapes |-> <<None, poly>>,
   enable_xla |-> xla]

Convert ==
  /\ pc = "convert"
  /\ tf_fn' = convert(jax_fn, with_gradient, polymorphic_shapes, enable_xla)
  /\ calls' = Append(calls, Invocation("jax2tf.convert", jax_fn))
  /\ pc' = "variables"
  /\ UNCHANGED <<args, saved_model_options, options_heap, param_vars, tf_graph,
                 signatures, next_sig, wrapper, saved, error, gradient_marked>>

ConvertRaises ==
  /\ Raises("convert", "jax2tf.convert", <<Invocation("jax2tf.convert", jax_fn)>>)
  /\ UNCHANGED saved

\* The tf.Variable invocations map_structure makes for the first n leaves.
VariableCalls(structure, n) ==
  [i \in 1..n |-> Invocation("tf.Variable", flatten(structure)[i].value)]

\* Lines 107-109: param_vars = tf.nest.map_structure(...)
CreateVariables ==
  /\ pc = "variables"
  /\ param_vars' = map_structure(with_gradient, params)
  /\ calls' = calls \o VariableCalls(params, Len(flatten(params)))
  /\ pc' = "function"
  /\ UNCHANGED <<args, saved_model_options, options_heap, tf_fn, tf_graph,
                 signatures, next_sig, wrapper, saved, error, gradient_marked>>

\* The creation of the n-th variable raises; param_vars is never bound.
CreateVariablesRaises ==
  /\ \E n \in 1..Len(flatten(params)) :
       Raises("variables", "tf.Variable", VariableCalls(params, n))
  /\ UNCHANGED saved

\* Lines 110-112: tf_graph = tf.function(lambda inputs: tf_fn(param_vars, inputs), ...)
function(fn, pvars, jit) ==
  [python_function |-> [callee |-> fn, closure |-> pvars],
   autograph |-> FALSE,
   jit_compile |-> jit]

MakeFunction ==
  /\ pc = "function"
  /\ tf_graph' = function(tf_fn, param_vars, compile_model)
  /\ calls' = Append(calls, Invocation("tf.function", "lambda"))
  /\ pc' = "trace_default"
  /\ UNCHANGED <<args, saved_model_options, options_heap, tf_fn, param_vars,
                 signatures, next_sig, wrapper, saved, error, gradient_marked>>

\* tf_graph.get_concrete_function(signature): the specialized entry point.
get_concrete_function(graph, signature) ==
  [function |-> graph, input_signature |-> signature]

\* Lines 114-117: the signatures dictionary with the default serving entry.
default_signatures(graph, sigs) ==
  DEFAULT_SERVING_SIGNATURE_DEF_KEY :> get_concrete_function(graph, sigs[1])

\* TraceDefault with the loop of line 118 starting one signature late.
TraceDefault_skipping_one ==
  /\ pc = "trace_default"
  /\ signatures' = default_signatures(tf_graph, input_signatures)
  /\ calls' = Append(calls, Invocation("get_concrete_function", input_signatures[1]))
  /\ next_sig' = 3
  /\ pc' = "trace_more"
  /\ UNCHANGED <<args, saved_model_options, options_heap, tf_fn, param_vars,
                 tf_graph, wrapper, saved, error, gradient_marked>>

TraceDefault ==
  /\ pc = "trace_default"
  /\ signatures' = default_signatures(tf_graph, input_signatures)
  /\ calls' = Append(calls, Invocation("get_concrete_function", input_signatures[1]))
  /\ next_sig' = 2
  /\ pc' = "trace_more"
  /\ UNCHANGED <<args, saved_model_options, options_heap, tf_fn, param_vars,
                 tf_graph, wrapper, saved, error, gradient_marked>>

TraceDefaultRaises ==
  /\ Raises("trace_default", "get_concrete_function",
            <<Invocation("get_concrete_function", input_signatures[1])>>)
  /\ UNCHANGED saved

\* TraceAdditional with the concrete function kept in the signatures map.
TraceAdditional_keeping ==
  /\ pc = "trace_more"
  /\ next_sig <= Len(input_signatures)
  /\ calls' = Append(calls, Invocation("get_concrete_function", input_signatures[next_sig]))
  /\ signatures' = (input_signatures[next_sig] :>
                      get_concrete_function(tf_graph, input_signatures[next_sig]))
                   @@ signatures
  /\ next_sig' = next_sig + 1
  /\ UNCHANGED <<pc, args, saved_model_options, options_heap, tf_fn, param_vars,
                 tf_graph, wrapper, saved, error, gradient_marked>>

\* Lines 118-120: one iteration of the loop over input_signatures[1:]; the
\* concrete function is dropped.
TraceAdditional ==
  /\ pc = "trace_more"
  /\ next_sig <= Len(input_signatures)
  /\ calls' = Append(calls, Invocation("get_concrete_function", input_signatures[next_sig]))
  /\ next_sig' = next_sig + 1
  /\ UNCHANGED <<pc, args, saved_model_options, options_heap, tf_fn, param_vars,
                 tf_graph, signatures, wrapper, saved, error, gradient_marked>>

TraceAdditionalRaises ==
  /\ next_sig <= Len(input_signatures)
  /\ Raises("trace_more", "get_concrete_function",
            <<Invocation("get_concrete_function", input_signatures[next_sig])>>)
  /\ UNCHANGED saved

\* Line 121, after the loop ends: wrapper = _ReusableSavedModelWrapper(tf_graph, param_vars)
ConstructWrapper ==
  /\ pc = "trace_more"
  /\ next_sig > Len(input_signatures)
  /\ wrapper' = ReusableSavedModelWrapper(tf_graph, param_vars)
  /\ pc' = "options"
  /\ UNCHANGED <<args, saved_model_options, options_heap, tf_fn, param_vars,
                 tf_graph, signatures, next_sig, calls, saved, error, gradient_marked>>

\* options_ref with a new object also when one was supplied.
options_ref_copying(wg, ref) == IF wg THEN FreshRef ELSE ref

\* Lines 122-126: the value of the local saved_model_options after the step.
options_ref(wg, ref) == IF wg /\ ~Truthy(ref) THEN FreshRef ELSE ref

\* options_store without the test of line 122 around the assignment of line 126.
options_store_unconditional(wg, ref, heap) ==
  IF Truthy(ref)
  THEN [heap EXCEPT ![ref].experimental_custom_gradients = TRUE]
  ELSE IF wg
       THEN [heap EXCEPT ![FreshRef] =
               [live |-> TRUE, experimental_custom_gradients |-> TRUE]]
       ELSE heap

\* options_store assigning with_gradient instead of True in line 126.
options_store_assigning(wg, ref, heap) ==
  IF Truthy(ref)
  THEN [heap EXCEPT ![ref].experimental_custom_gradients = wg]
  ELSE IF wg
       THEN [heap EXCEPT ![FreshRef] =
               [live |-> TRUE, experimental_custom_gradients |-> TRUE]]
       ELSE heap

\* Lines 122-126: the heap after the step.
options_store(wg, ref, heap) ==
  IF wg
  THEN [heap EXCEPT ![options_ref(wg, ref)] =
          IF Truthy(ref)
          THEN [@ EXCEPT !.experimental_custom_gradients = TRUE]
          ELSE [live |-> TRUE, experimental_custom_gradients |-> TRUE]]
  ELSE heap

AdjustOptions ==
  /\ pc = "options"
  /\ saved_model_options' = options_ref(with_gradient, saved_model_options)
  /\ options_heap' = options_store(with_gradient, saved_model_options, options_heap)
  /\ gradient_marked' =
       IF with_gradient /\ Truthy(saved_model_options)
       THEN gradient_marked \cup {saved_model_options}
       ELSE gradient_marked
  /\ pc' = "save"
  /\ UNCHANGED <<args, locals, calls, saved, error>>

\* Lines 127-128: what tf.saved_model.save is handed.  options_flag is the
\* custom-gradient flag of the options object handed over (FALSE for None).
save_request(obj, dir, sigs, ref, heap) ==
  [obj |-> obj, export_dir |-> dir, signatures |-> sigs, options |-> ref,
   options_flag |-> Truthy(ref) /\ heap[ref].experimental_custom_gradients]

SaveRequest ==
  save_request(wrapper, model_dir, signatures, saved_model_options, options_heap)

Save ==
  /\ pc = "save"
  /\ saved' = Append(saved, SaveRequest)
  /\ calls' = Append(calls, Invocation("tf.saved_model.save", model_dir))
  /\ pc' = "returned"
  /\ UNCHANGED <<args, saved_model_options, options_heap, locals, error,
                 gradient_marked>>

SaveRaises ==
  /\ Raises("save", "tf.saved_model.save",
            <<Invocation("tf.saved_model.save", model_dir)>>)
  /\ saved' = Append(saved, SaveRequest)

\* The call is over (returned or raised): the frame and the objects only it
\* referenced are gone; the caller's SaveOptions objects stay.
Return ==
  /\ pc \in {"returned", "raised"}
  /\ pc' = "idle"
  /\ jax_fn' = None /\ params' = Unbound /\ model_dir' = None
  /\ input_signatures' = <<>> /\ polymorphic_shapes' = None
  /\ with_gradient' = FALSE /\ enable_xla' = FALSE /\ compile_model' = FALSE
  /\ caller_options' = NoneRef
  /\ saved_model_options' = NoneRef
  /\ tf_fn' = Unbound /\ param_vars' = Unbound /\ tf_graph' = Unbound
  /\ signatures' = EmptyDict /\ next_sig' = 0 /\ wrapper' = Unbound
  /\ calls' = <<>> /\ saved' = <<>> /\ error' = NoError
  /\ options_heap' = [options_heap EXCEPT ![FreshRef] = Dead]
  /\ UNCHANGED gradient_marked

Next ==
  \/ Call \/ Validate
  \/ Convert \/ ConvertRaises
  \/ CreateVariables \/ CreateVariablesRaises
  \/ MakeFunction
  \/ TraceDefault \/ TraceDefaultRaises
  \/ TraceAdditional \/ TraceAdditionalRaises
  \/ ConstructWrapper
  \/ AdjustOptions
  \/ Save \/ SaveRaises
  \/ Return

Spec == Init /\ [][Next]_vars

\* ------------------------------------- _ReusableSavedModelWrapper alone
\* The class is constructed from any tf.function and any nested structure of
\* tf.Variable: every parameter structure, its variables created in traversal
\* order, each with either trainable flag.
CellStructures ==
  UNION { { pack_sequence_as(p, [i \in 1..Len(flatten(p)) |->
                                  Variable(flatten(p)[i], flags[i], i)]) :
              flags \in [1..Len(flatten(p)) -> BOOLEAN] } :
          p \in ParamsUniverse }

Functions ==
  { function(convert(f, wg, None, TRUE), Unbound, jit) :
      f \in JaxFns, wg \in BOOLEAN, jit \in BOOLEAN }

InitWrapper ==
  /\ pc = "construct"
  /\ NoArgs
  /\ saved_model_options = NoneRef
  /\ tf_fn = Unbound /\ signatures = EmptyDict /\ next_sig = 0
  /\ calls = <<>> /\ saved = <<>> /\ error = NoError
  /\ wrapper = Unbound
  /\ tf_graph \in Functions
  /\ param_vars \in CellStructures
  /\ options_heap = [o \in OptionRefs |-> Dead]
  /\ gradient_marked = {}

\* Lines 138-154: _ReusableSavedModelWrapper(tf_graph, param_vars)
WrapperInit ==
  /\ pc = "construct"
  /\ wrapper' = ReusableSavedModelWrapper(tf_graph, param_vars)
  /\ pc' = "constructed"
  /\ UNCHANGED <<args, saved_model_options, options_heap, tf_fn, param_vars,
                 tf_graph, signatures, next_sig, calls, saved, error,
                 gradient_marked>>

NextWrapper == WrapperInit

SpecWrapper == InitWrapper /\ [][NextWrapper]_vars

\* ------------------------------------------------------------ properties
\* The get_concrete_function invocations of the call, in order, and the
\* signatures they were given.
Traces == SelectSeq(calls, LAMBDA c : c.svc = "get_concrete_function")
TracedSignatures == [i \in 1..Len(Traces) |-> Traces[i].arg]

\* How often the call invoked the external service svc.
Count(svc) == Len(SelectSeq(calls, LAMBDA c : c.svc = svc))

\* A call is in progress and its argument checks are over.
Checked == pc \notin {"idle", "validate", "construct", "constructed"}

\* Nothing of the call's work exists: no service was invoked, no name of the
\* frame is bound, nothing was handed to persistence.
NothingDone ==
  /\ calls = <<>> /\ saved = <<>>
  /\ tf_fn = Unbound /\ param_vars = Unbound /\ tf_graph = Unbound
  /\ signatures = EmptyDict /\ wrapper = Unbound
  /\ saved_model_options = caller_options

\* The caller-owned SaveOptions objects are the same before and after a step.
CallerOptionsUnchanged ==
  \A o \in CallerOptions : options_heap'[o] = options_heap[o]

C1_Rejected ==
  (Checked /\ Len(input_signatures) = 0) =>
     /\ pc = "raised"
     /\ error = ValueError("At least one input_signature must be given")
     /\ NothingDone

\* C1: a call with empty input_signatures raises the ValueError of line 94
\* whatever the other arguments, and does nothing else: no conversion, no
\* variable, no trace, no save, and no step of it changes a SaveOptions object.
C1_EmptySignaturesFail ==
  /\ []C1_Rejected
  /\ [][(pc # "idle" /\ Len(input_signatures) = 0) => CallerOptionsUnchanged]_vars

C1_Witness ==
  /\ pc = "raised" /\ Len(input_signatures) = 0
  /\ polymorphic_shapes # None /\ with_gradient /\ Truthy(caller_options)
  /\ error.type = "ValueError"

\* C2: with polymorphic_shapes given and more than one signature the call
\* raises the ValueError of lines 97-98 before jax2tf.convert is invoked and
\* nothing is traced or saved; with polymorphic_shapes and exactly one
\* signature, or without polymorphic_shapes and at least one signature, the
\* argument checks raise nothing.
C2_PolymorphicNeedsSingleSignature ==
  Checked =>
    /\ (polymorphic_shapes # None /\ Len(input_signatures) > 1) =>
         /\ pc = "raised"
         /\ error = ValueError("For shape-polymorphic conversion a single input_signature is supported.")
         /\ Count("jax2tf.convert") = 0
         /\ Count("get_concrete_function") = 0
         /\ Count("tf.saved_model.save") = 0 /\ saved = <<>>
    /\ (\/ polymorphic_shapes # None /\ Len(input_signatures) = 1
        \/ polymorphic_shapes = None /\ Len(input_signatures) >= 1) =>
         /\ error.type # "ValueError"
         /\ pc = "raised" => Count("jax2tf.convert") = 1

C2_Witness ==
  /\ pc = "raised" /\ polymorphic_shapes # None /\ Len(input_signatures) = 2
  /\ error.type = "ValueError" /\ calls = <<>>

\* C3: when a call without polymorphic_shapes hands its result to
\* tf.saved_model.save, the default serving entry is the concrete function of
\* input_signatures[0], traced on the function the wrapper carries, and the
\* get_concrete_function invocations made before the save are exactly one per
\* signature, in index order.
C3_EverySignatureTracedInOrder ==
  (saved # <<>> /\ polymorphic_shapes = None) =>
     /\ saved[1].signatures[DEFAULT_SERVING_SIGNATURE_DEF_KEY]
          = get_concrete_function(tf_graph, input_signatures[1])
     /\ saved[1].signatures[DEFAULT_SERVING_SIGNATURE_DEF_KEY].function
          = saved[1].obj.call
     /\ TracedSignatures = input_signatures
     /\ Len(Traces) = Len(input_signatures)
     /\ calls[Len(calls)].svc = "tf.saved_model.save"

C3_Witness ==
  /\ pc = "returned" /\ saved # <<>> /\ polymorphic_shapes = None
  /\ Len(input_signatures) = 3
  /\ input_signatures[1] # input_signatures[2]
  /\ input_signatures[2] # input_signatures[3]

\* C4: with with_gradient the options handed to tf.saved_model.save carry
\* experimental_custom_gradients: the caller's own object, flag set in place,
\* when one was supplied, and a new object with the flag set when none was.
C4_GradientOptions ==
  (saved # <<>> /\ with_gradient) =>
     /\ saved[1].options_flag
     /\ Truthy(caller_options) =>
          /\ saved[1].options = caller_options
          /\ options_heap[caller_options].experimental_custom_gradients
     /\ ~Truthy(caller_options) =>
          /\ saved[1].options \notin CallerOptions \cup {NoneRef}
          /\ options_heap[saved[1].options].live
          /\ options_heap[saved[1].options].experimental_custom_gradients

C4_Witness ==
  /\ pc = "returned" /\ saved # <<>> /\ with_gradient
  /\ Truthy(caller_options)
  /\ saved[1].options = caller_options /\ saved[1].options_flag

\* The steps of a call that run its body (the frame exists).
InCall == pc \notin {"idle", "returned", "raised", "construct", "constructed"}

C5_OptionsAsPassed ==
  (saved # <<>> /\ ~with_gradient) =>
     /\ saved[1].options = caller_options
     /\ saved_model_options = caller_options
     /\ ~options_heap[FreshRef].live

C5_Frame ==
  /\ InCall => (params' = params /\ input_signatures' = input_signatures)
  /\ \A o \in CallerOptions :
       options_heap'[o] # options_heap[o] =>
          /\ with_gradient /\ o = caller_options
          /\ options_heap'[o] =
               [options_heap[o] EXCEPT !.experimental_custom_gradients = TRUE]

\* C5: a step of a call leaves params and input_signatures as they are, and
\* changes a caller-owned SaveOptions object only if with_gradient is set and
\* the object is the one supplied, and then only by setting its
\* experimental_custom_gradients; without with_gradient the supplied options
\* (or None) reach tf.saved_model.save as passed and no object is created.
C5_OnlyOptionsFlagChanges == []C5_OptionsAsPassed /\ [][C5_Frame]_vars

C5_Witness ==
  /\ pc = "returned" /\ saved # <<>> /\ ~with_gradient
  /\ Truthy(caller_options) /\ saved[1].options = caller_options
  /\ ~saved[1].options_flag

\* The structure vs has the nesting of ps, and where ps has a leaf vs has a
\* variable holding that leaf, with the trainable flag t.
RECURSIVE WrapsStructure(_, _, _)
WrapsStructure(vs, ps, t) ==
  IF ps.kind = "seq"
  THEN /\ vs.kind = "seq" /\ Len(vs.items) = Len(ps.items)
       /\ \A i \in 1..Len(ps.items) : WrapsStructure(vs.items[i], ps.items[i], t)
  ELSE IF ps.kind = "dict"
       THEN /\ vs.kind = "dict" /\ DOMAIN vs.entries = DOMAIN ps.entries
            /\ \A k \in DOMAIN ps.entries : WrapsStructure(vs.entries[k], ps.entries[k], t)
       ELSE vs.kind = "var" /\ vs.value = ps.value /\ vs.trainable = t

\* The leaves (or variables) of a structure, as a set.
RECURSIVE CellsOf(_)
CellsOf(t) ==
  IF t.kind = "seq" THEN UNION {CellsOf(t.items[i]) : i \in 1..Len(t.items)}
  ELSE IF t.kind = "dict" THEN UNION {CellsOf(t.entries[k]) : k \in DOMAIN t.entries}
       ELSE {t}

\* The number of leaf positions of a structure.
RECURSIVE LeafCount(_)
RECURSIVE LeafCountAll(_)
LeafCount(t) == IF IsNode(t) THEN LeafCountAll(Children(t)) ELSE 1
LeafCountAll(ts) ==
  IF ts = <<>> THEN 0 ELSE LeafCount(Head(ts)) + LeafCountAll(Tail(ts))

\* C6: once param_vars is bound it has the nested structure of params, every
\* leaf of params sits in a variable of its own (as many distinct variables,
\* and as many tf.Variable invocations, as params has leaves), and every
\* variable's trainable flag is with_gradient.
C6_ParamsWrapped ==
  (Checked /\ param_vars # Unbound) =>
     /\ WrapsStructure(param_vars, params, with_gradient)
     /\ Cardinality(CellsOf(param_vars)) = LeafCount(params)
     /\ Cardinality({c.id : c \in CellsOf(param_vars)}) = LeafCount(params)
     /\ Count("tf.Variable") = LeafCount(params)
     /\ \A c \in CellsOf(param_vars) : c.trainable = with_gradient

C6_Witness ==
  /\ pc = "returned" /\ with_gradient
  /\ params.kind = "dict" /\ LeafCount(params) = 3
  /\ \A c \in CellsOf(param_vars) : c.trainable

\* s is t with some elements left out.
IsSubsequence(s, t) ==
  \E f \in [1..Len(s) -> 1..Len(t)] :
     /\ \A i, j \in 1..Len(s) : i < j => f[i] < f[j]
     /\ \A i \in 1..Len(s) : s[i] = t[f[i]]

Range(s) == {s[i] : i \in 1..Len(s)}

\* C7: a constructed wrapper has variables = the flattening of the structure
\* it was given (every variable of the structure once, in creation order),
\* trainable_variables = a subsequence of variables holding exactly the
\* variables whose trainable flag is set, regularization_losses empty and
\* __call__ = the function it was given.
C7_WrapperFields ==
  wrapper # Unbound =>
     /\ wrapper.variables = flatten(param_vars)
     /\ Range(wrapper.variables) = CellsOf(param_vars)
     /\ Len(wrapper.variables) = Cardinality(CellsOf(param_vars))
     /\ \A i \in 1..Len(wrapper.variables) : wrapper.variables[i].id = i
     /\ IsSubsequence(wrapper.trainable_variables, wrapper.variables)
     /\ Range(wrapper.trainable_variables)
          = {v \in Range(wrapper.variables) : v.trainable}
     /\ wrapper.regularization_losses = <<>>
     /\ wrapper.call = tf_graph

C7_Witness ==
  /\ pc = "constructed" /\ wrapper # Unbound
  /\ Len(wrapper.variables) = 3
  /\ param_vars.kind = "dict"
  /\ wrapper.trainable_variables = <<wrapper.variables[1], wrapper.variables[3]>>
  /\ ~wrapper.variables[2].trainable

\* C8 as stated: the signature map handed to tf.saved_model.save holds the
\* default serving entry for input_signatures[0] and, under a further key, an
\* entry for each additional signature.
C8_AsStated ==
  saved # <<>> =>
     /\ saved[1].signatures[DEFAULT_SERVING_SIGNATURE_DEF_KEY].input_signature
          = input_signatures[1]
     /\ \A i \in 2..Len(input_signatures) :
          \E k \in DOMAIN saved[1].signatures \ {DEFAULT_SERVING_SIGNATURE_DEF_KEY} :
             saved[1].signatures[k].input_signature = input_signatures[i]

\* C8 amended: the signature map handed to tf.saved_model.save has exactly one
\* key, the default serving key, bound to the concrete function of
\* input_signatures[0]; the additional signatures are traced before the save
\* but have no entry in the map.
C8_OnlyDefaultServingKey ==
  saved # <<>> =>
     /\ DOMAIN saved[1].signatures = {DEFAULT_SERVING_SIGNATURE_DEF_KEY}
     /\ saved[1].signatures[DEFAULT_SERVING_SIGNATURE_DEF_KEY]
          = get_concrete_function(saved[1].obj.call, input_signatures[1])
     /\ Cardinality(DOMAIN saved[1].signatures) = 1
     /\ Len(Traces) = Len(input_signatures)
     /\ \A i \in 2..Len(input_signatures) : Traces[i].arg = input_signatures[i]

C8_Witness ==
  /\ pc = "returned" /\ saved # <<>>
  /\ Len(input_signatures) = 2 /\ input_signatures[1] # input_signatures[2]
  /\ Count("get_concrete_function") = 2
  /\ Cardinality(DOMAIN saved[1].signatures) = 1

\* The names of the services the call invoked, in order.
ServiceNames == [i \in 1..Len(calls) |-> calls[i].svc]
Repeat(x, n) == [i \in 1..n |-> x]
IsPrefix(s, t) == Len(s) <= Len(t) /\ SubSeq(t, 1, Len(s)) = s

\* The services a call that runs to its end invokes, in the order of the text.
ExpectedServices ==
  <<"jax2tf.convert">> \o Repeat("tf.Variable", LeafCount(params))
    \o <<"tf.function">>
    \o Repeat("get_concrete_function", Len(input_signatures))
    \o <<"tf.saved_model.save">>

\* The positions a step may lead to.
Follows(p) ==
  CASE p = "idle" -> {"validate"}
    [] p = "validate" -> {"convert", "raised"}
    [] p = "convert" -> {"variables", "raised"}
    [] p = "variables" -> {"function", "raised"}
    [] p = "function" -> {"trace_default"}
    [] p = "trace_default" -> {"trace_more", "raised"}
    [] p = "trace_more" -> {"trace_more", "options", "raised"}
    [] p = "options" -> {"save"}
    [] p = "save" -> {"returned", "raised"}
    [] OTHER -> {"idle"}

C9_Order ==
  pc \notin {"idle", "construct", "constructed"} =>
     /\ IsPrefix(ServiceNames, ExpectedServices)
     /\ TracedSignatures = SubSeq(input_signatures, 1, Len(Traces))
     /\ wrapper # Unbound =>
          /\ Count("get_concrete_function") = Len(input_signatures)
          /\ wrapper.call = tf_graph
     /\ saved_model_options # caller_options => wrapper # Unbound
     /\ Len(saved) <= 1 /\ Count("tf.saved_model.save") = Len(saved)
     /\ saved # <<>> =>
          /\ tf_fn # Unbound /\ Count("jax2tf.convert") = 1
          /\ Count("get_concrete_function") = Len(input_signatures)
          /\ saved[1].obj = wrapper /\ wrapper # Unbound
     /\ error # NoError => pc = "raised"
     /\ (pc = "raised" /\ error.type = "propagated") =>
          calls[Len(calls)].svc = error.msg
     /\ error.type = "ValueError" => calls = <<>>

C9_Step ==
  /\ pc' \in Follows(pc)
  /\ pc # "options" =>
       /\ CallerOptionsUnchanged
       /\ options_heap'[FreshRef].live => options_heap[FreshRef].live

\* C9: a call invokes its services in the order convert, one tf.Variable per
\* leaf, tf.function, one get_concrete_function per signature in index order,
\* save; the wrapper is built after the last trace and the options are
\* adjusted after the wrapper; a raise of a service ends the call there (the
\* raising service is the last one invoked and the only step left is the
\* return to the caller); save is invoked at most once and only after convert
\* and all traces returned; and only the options step changes or creates a
\* SaveOptions object, so a call that raises earlier leaves the supplied
\* object as it was.
C9_StepsInOrder == []C9_Order /\ [][C9_Step]_vars

C9_Witness ==
  /\ pc = "raised" /\ error = Propagated("get_concrete_function")
  /\ Len(input_signatures) = 3 /\ Count("get_concrete_function") = 2
  /\ with_gradient /\ Truthy(caller_options)
  /\ ~options_heap[caller_options].experimental_custom_gradients
  /\ saved = <<>> /\ wrapper = Unbound

C10_Carried ==
  /\ \A i \in 1..Len(saved) :
       saved[i].options \in gradient_marked => saved[i].options_flag
  /\ \A o \in gradient_marked : options_heap[o].experimental_custom_gradients
  /\ pc = "idle" =>
       /\ NoArgs /\ EmptyFrame /\ saved_model_options = NoneRef
       /\ options_heap[FreshRef] = Dead
  /\ pc = "validate" =>
       /\ EmptyFrame /\ saved_model_options = caller_options
       /\ options_heap[FreshRef] = Dead

C10_Step ==
  \A o \in CallerOptions :
     options_heap[o].experimental_custom_gradients
        => options_heap'[o].experimental_custom_gradients

\* C10: over any sequence of calls no step clears experimental_custom_gradients
\* of a caller-owned SaveOptions object; once a call with with_gradient has
\* passed the options step with an object, every later save that is handed the
\* object sees the flag set, also in calls without with_gradient; and between
\* calls nothing but the caller-owned SaveOptions objects is kept: each call
\* starts with an empty frame.
C10_FlagMonotonic == []C10_Carried /\ [][C10_Step]_vars

C10_Witness ==
  /\ pc = "returned" /\ ~with_gradient
  /\ caller_options \in gradient_marked
  /\ saved # <<>> /\ saved[1].options = caller_options /\ saved[1].options_flag

====
